---- MODULE Spec2Model ----
(***************************************************************************)
(* Model of the notebook "Collapsing Orthologous Nodes":                   *)
(*   cell In[8]   partition of the undirected orthology graph into         *)
(*                connected components (index2component, member2index,     *)
(*                index2mgi);                                              *)
(*   cell In[9]   construction of mapping;                                 *)
(*   cell In[10]  loading of the corpus graph g;                           *)
(*   cell In[12]  merge of the orthology node data into g's nodes;         *)
(*   cell In[13]  nx.relabel_nodes(g, ..., copy=False).                    *)
(* A node is a tuple <<function, namespace, name>>.  A Python dict is a    *)
(* TLA+ function whose DOMAIN is the dict's key set.                       *)
(***************************************************************************)
EXTENDS Integers, Sequences, FiniteSets, TLC

VARIABLES
    orthology_undirected, \* [node, edges]: node is the node-data dict, edges are sets {u, v}
    seen,                 \* nx.connected_components: nodes already yielded
    i,                    \* enumerate() index of the current component
    component,            \* the component bound by the for statement of In[8]
    scanned,              \* per component of In[8], its members in the order iterated
    index2component,
    member2index,
    index2mgi,
    mapping,
    visited9,             \* nodes already iterated by the loop of In[9]
    corpus,               \* the graph pybel.get_large_corpus() returned
    g,                    \* [node, edge]: node data dict; edge maps <<u, v, key>> to edge data
    visited12,            \* nodes already iterated by the loop of In[12]
    m,                    \* relabel_nodes: the dict built from the lambda
    todo13,               \* _relabel_inplace: labels still to be iterated
    file,                 \* what is stored at path: Absent or a pickle
    orthology,            \* the graph In[5] has bound
    runs,                 \* how often In[5] has been run
    downloads,            \* calls of pybel.from_url so far
    writes,               \* calls of pybel.to_pickle so far
    pc                    \* the statement the notebook is at

builder == << orthology_undirected, seen, i, component, scanned, index2component,
              member2index, index2mgi, mapping, visited9 >>
applier == << corpus, g, visited12, m, todo13 >>
loader == << file, orthology, runs, downloads, writes >>
vars == << builder, applier, loader, pc >>

(*************************** input data ************************************)
TP53   == << "Gene", "HGNC", "TP53" >>
Trp53  == << "Gene", "MGI", "Trp53" >>
Tp53   == << "Gene", "RGD", "Tp53" >>
Trp53b == << "Gene", "MGI", "Trp53-ps" >>
FOO    == << "Gene", "HGNC", "FOO" >>

\* the identifiers an orthology graph is drawn from
Universe == { TP53, Trp53, Tp53, Trp53b, FOO }

\* largest number of edges of an orthology graph
MaxEdges == 3

Pairs(S) == { e \in SUBSET S : Cardinality(e) = 2 }

\* the data pybel keeps for a node of the orthology graph
NodeData(n) == [type |-> n[1], namespace |-> n[2], name |-> n[3]]

Graphs(S, maxEdges) ==
    { [node |-> [n \in N |-> NodeData(n)], edges |-> E] :
        N \in SUBSET S,
        E \in { F \in SUBSET Pairs(S) : Cardinality(F) <= maxEdges } }

Nodes(G) == DOMAIN G.node

WellFormed(G) == \A e \in G.edges : e \subseteq Nodes(G)

(*************************** helpers ***************************************)
EmptyDict == [x \in {} |-> x]

\* d[k] = v  (dict item assignment)
SetItem(d, k, v) == [x \in DOMAIN d \cup {k} |-> IF x = k THEN v ELSE d[x]]

\* an update that keeps the value a key already has
Update_keep(d, e) ==
    [x \in DOMAIN d \cup DOMAIN e |-> IF x \in DOMAIN d THEN d[x] ELSE e[x]]

\* d.update(e)
Update(d, e) == [x \in DOMAIN d \cup DOMAIN e |-> IF x \in DOMAIN e THEN e[x] ELSE d[x]]

Range(s) == { s[k] : k \in DOMAIN s }

\* G[v]: the neighbours of v
Adj(G, v) == { w \in Nodes(G) : {v, w} \in G.edges }

\* a search that stops after the neighbours of the source
plain_bfs_shallow(G, seenset, nextlevel) ==
    seenset \cup nextlevel \cup UNION { Adj(G, v) : v \in nextlevel }

\* networkx _plain_bfs, one level of the while loop per unfolding
RECURSIVE plain_bfs(_, _, _)
plain_bfs(G, seenset, nextlevel) ==
    IF nextlevel = {} THEN seenset
    ELSE LET fresh == nextlevel \ seenset
         IN  plain_bfs(G, seenset \cup fresh, UNION { Adj(G, v) : v \in fresh })

(*************************** In[8] *****************************************)
NoGraph == [node |-> EmptyDict, edge |-> EmptyDict]

\* os.path.exists(path) is False
Absent == << >>

\* the notebook before In[8] runs on the orthology graph G
Start(G) ==
    /\ orthology_undirected = G
    /\ seen = {}
    /\ i = -1
    /\ component = {}
    /\ scanned = << >>
    /\ index2component = EmptyDict
    /\ member2index = EmptyDict
    /\ index2mgi = EmptyDict
    /\ mapping = EmptyDict
    /\ visited9 = {}
    /\ corpus = NoGraph
    /\ g = NoGraph
    /\ visited12 = {}
    /\ m = EmptyDict
    /\ todo13 = {}
    /\ file = Absent
    /\ orthology = NoGraph
    /\ runs = 0
    /\ downloads = 0
    /\ writes = 0
    /\ pc = "c8_for"

Init == \E G \in { H \in Graphs(Universe, MaxEdges) : WellFormed(H) } : Start(G)

\* the loop without enumerate(): every component is recorded under index 0
NextComponent_noEnumerate ==
    /\ pc = "c8_for"
    /\ LET seen1 == seen \cup component
       IN  \E v \in Nodes(orthology_undirected) \ seen1 :
             LET c == plain_bfs(orthology_undirected, {}, {v})
             IN  /\ seen' = seen1
                 /\ i' = 0
                 /\ component' = c
                 /\ index2component' = SetItem(index2component, 0, c)
                 /\ scanned' = Append(scanned, << >>)
                 /\ pc' = "c8_members"
    /\ UNCHANGED << orthology_undirected, member2index, index2mgi, mapping, visited9 >>
    /\ UNCHANGED << applier, loader >>

\* for i, component in enumerate(nx.connected_components(...)):
\*     index2component[i] = component
NextComponent ==
    /\ pc = "c8_for"
    /\ LET seen1 == seen \cup component
       IN  \E v \in Nodes(orthology_undirected) \ seen1 :
             LET c == plain_bfs(orthology_undirected, {}, {v})
             IN  /\ seen' = seen1
                 /\ i' = i + 1
                 /\ component' = c
                 /\ index2component' = SetItem(index2component, i + 1, c)
                 /\ scanned' = Append(scanned, << >>)
                 /\ pc' = "c8_members"
    /\ UNCHANGED << orthology_undirected, member2index, index2mgi, mapping, visited9 >>
    /\ UNCHANGED << applier, loader >>

\* the namespace test inverted
IsMGI_inverted(n) == "MGI" # n[2]

\* the namespace test left out
IsMGI_always(n) == TRUE

\* if 'MGI' == namespace
IsMGI(n) == "MGI" = n[2]

\* index2mgi[i] is set for the first MGI member only
ScanMember_firstMGI ==
    /\ pc = "c8_members"
    /\ \E n \in component \ Range(scanned[Len(scanned)]) :
         /\ member2index' = SetItem(member2index, n, i)
         /\ index2mgi' = IF IsMGI(n) /\ i \notin DOMAIN index2mgi
                          THEN SetItem(index2mgi, i, n) ELSE index2mgi
         /\ scanned' = [scanned EXCEPT ![Len(scanned)] = Append(@, n)]
         /\ pc' = IF component \ Range(scanned[Len(scanned)]) = {n}
                  THEN "c8_for" ELSE "c8_members"
    /\ UNCHANGED << orthology_undirected, seen, i, component, index2component,
                    mapping, visited9 >>
    /\ UNCHANGED << applier, loader >>

\* the assignment to member2index indented under the namespace test
ScanMember_indented ==
    /\ pc = "c8_members"
    /\ \E n \in component \ Range(scanned[Len(scanned)]) :
         /\ member2index' = IF IsMGI(n) THEN SetItem(member2index, n, i) ELSE member2index
         /\ index2mgi' = IF IsMGI(n) THEN SetItem(index2mgi, i, n) ELSE index2mgi
         /\ scanned' = [scanned EXCEPT ![Len(scanned)] = Append(@, n)]
         /\ pc' = IF component \ Range(scanned[Len(scanned)]) = {n}
                  THEN "c8_for" ELSE "c8_members"
    /\ UNCHANGED << orthology_undirected, seen, i, component, index2component,
                    mapping, visited9 >>
    /\ UNCHANGED << applier, loader >>

\* one iteration of: for function, namespace, name in component
ScanMember ==
    /\ pc = "c8_members"
    /\ \E n \in component \ Range(scanned[Len(scanned)]) :
         /\ member2index' = SetItem(member2index, n, i)
         /\ index2mgi' = IF IsMGI(n) THEN SetItem(index2mgi, i, n) ELSE index2mgi
         /\ scanned' = [scanned EXCEPT ![Len(scanned)] = Append(@, n)]
         /\ pc' = IF component \ Range(scanned[Len(scanned)]) = {n}
                  THEN "c8_for" ELSE "c8_members"
    /\ UNCHANGED << orthology_undirected, seen, i, component, index2component,
                    mapping, visited9 >>
    /\ UNCHANGED << applier, loader >>

\* the generator is exhausted; In[9] starts with mapping = {}
PartitionDone ==
    /\ pc = "c8_for"
    /\ Nodes(orthology_undirected) \ (seen \cup component) = {}
    /\ seen' = seen \cup component
    /\ mapping' = EmptyDict
    /\ visited9' = {}
    /\ pc' = "c9_for"
    /\ UNCHANGED << orthology_undirected, i, component, scanned, index2component,
                    member2index, index2mgi >>
    /\ UNCHANGED << applier, loader >>

(*************************** In[9] *****************************************)
\* an MGI node is mapped to itself instead of to index2mgi[index]
MapNode_ownMGI(map, n) ==
    IF n \notin DOMAIN member2index THEN map
    ELSE LET index == member2index[n]
         IN  IF index \notin DOMAIN index2mgi THEN map
             ELSE SetItem(map, n, IF IsMGI(n) THEN n ELSE index2mgi[index])

\* the representative gets no entry of its own
MapNode_skipRepresentative(map, n) ==
    IF n \notin DOMAIN member2index THEN map
    ELSE LET index == member2index[n]
         IN  IF index \notin DOMAIN index2mgi \/ index2mgi[index] = n THEN map
             ELSE SetItem(map, n, index2mgi[index])

\* a node of a component without representative is mapped to itself
MapNode_selfFallback(map, n) ==
    IF n \notin DOMAIN member2index THEN map
    ELSE LET index == member2index[n]
         IN  IF index \notin DOMAIN index2mgi THEN SetItem(map, n, n)
             ELSE SetItem(map, n, index2mgi[index])

\* key and value of the new entry exchanged
MapNode_swapped(map, n) ==
    IF n \notin DOMAIN member2index THEN map
    ELSE LET index == member2index[n]
         IN  IF index \notin DOMAIN index2mgi THEN map
             ELSE SetItem(map, index2mgi[index], n)

\* the body of the loop of In[9] for one node
MapNode(map, n) ==
    IF n \notin DOMAIN member2index THEN map
    ELSE LET index == member2index[n]
         IN  IF index \notin DOMAIN index2mgi THEN map
             ELSE SetItem(map, n, index2mgi[index])

MapStep ==
    /\ pc = "c9_for"
    /\ \E n \in Nodes(orthology_undirected) \ visited9 :
         /\ mapping' = MapNode(mapping, n)
         /\ visited9' = visited9 \cup {n}
    /\ UNCHANGED << orthology_undirected, seen, i, component, scanned,
                    index2component, member2index, index2mgi, pc >>
    /\ UNCHANGED << applier, loader >>

\* the loop of In[9] has ended; no later cell iterates the components, and
\* the order in which In[8] iterated them is kept no longer
MapDone ==
    /\ pc = "c9_for"
    /\ Nodes(orthology_undirected) \ visited9 = {}
    /\ scanned' = << >>
    /\ pc' = "c10"
    /\ UNCHANGED << orthology_undirected, seen, i, component, index2component,
                    member2index, index2mgi, mapping, visited9 >>
    /\ UNCHANGED << applier, loader >>

\* cells In[8] and In[9]
Build == NextComponent \/ ScanMember \/ PartitionDone \/ MapStep \/ MapDone

Spec == Init /\ [][Build]_vars

(*************************** In[10]: the corpus ****************************)
\* a node of the corpus that no orthology graph holds
Unrelated == << "Pathology", "MESH", "Neoplasms" >>

CorpusUniverse == { TP53, Tp53, Trp53, Unrelated }


\* largest number of nodes and of edges of a corpus
MaxCorpusNodes == 3
MaxCorpusEdges == 2

RECURSIVE SubsetsUpTo(_, _)
SubsetsUpTo(S, k) ==
    IF k = 0 THEN { {} }
    ELSE LET P == SubsetsUpTo(S, k - 1)
         IN  P \cup { q \cup {x} : q \in P, x \in S }

\* the data of corpus node n; its 'type' is the node's function or "Pathology"
CorpusNodeData(n, t) == [type |-> t, namespace |-> n[2], description |-> "corpus"]

CorpusNodeDicts ==
    UNION { { [n \in N |-> CorpusNodeData(n, IF n \in P THEN "Pathology" ELSE n[1])] :
                P \in SUBSET N } :
            N \in SubsetsUpTo(CorpusUniverse, MaxCorpusNodes) \ { {} } }

\* keys of parallel edges are 0, 1, ... as MultiDiGraph.add_edge numbers them
CorpusEdgeKeys(N) ==
    { K \in SubsetsUpTo({ e \in N \X N \X (0 .. MaxCorpusEdges - 1) : e[1] # e[2] },
                        MaxCorpusEdges) :
        \A e \in K : e[3] > 0 => << e[1], e[2], e[3] - 1 >> \in K }

\* the data of corpus edge e: a relation and the evidence of its statement
CorpusEdgeData(e) ==
    [relation |-> IF e[3] = 0 THEN "increases" ELSE "decreases",
     evidence |-> << e[1][3], e[2][3] >>]

Corpora ==
    UNION { { [node |-> nd, edge |-> [e \in K |-> CorpusEdgeData(e)]] :
                K \in CorpusEdgeKeys(DOMAIN nd) } :
            nd \in CorpusNodeDicts }

\* g = pybel.get_large_corpus()
LoadCorpus ==
    /\ pc = "c10"
    /\ \E c \in Corpora :
         /\ corpus' = c
         /\ g' = c
    /\ visited12' = {}
    /\ pc' = "c12_for"
    /\ UNCHANGED << loader, builder, m, todo13 >>

(*************************** In[12] ****************************************)
MergedTypes == { "Gene", "RNA", "Protein" }

\* the test on data['type'] left out
Merges_noType(G, name) == name \in DOMAIN mapping

\* if data['type'] in ('Gene','RNA','Protein') and name in mapping
Merges(G, name) == G.node[name]["type"] \in MergedTypes /\ name \in DOMAIN mapping

\* the nodes whose iteration the loop of In[12] has still to run; an
\* iteration whose test fails changes nothing and is passed over
Pending12 == { name \in DOMAIN g.node \ visited12 : Merges(g, name) }

\* one iteration of: for name, data in g.nodes_iter(data=True)
MergeStep ==
    /\ pc = "c12_for"
    /\ \E name \in Pending12 :
         /\ visited12' = visited12 \cup {name}
         /\ IF mapping[name] \notin DOMAIN orthology_undirected.node
            THEN g' = g /\ pc' = "KeyError"
            ELSE /\ g' = [g EXCEPT !.node[name] =
                             Update(@, orthology_undirected.node[mapping[name]])]
                 /\ pc' = pc
    /\ UNCHANGED << loader, builder, corpus, m, todo13 >>

(*************************** In[13]: nx.relabel_nodes **********************)
\* g is a pybel BELGraph, a networkx MultiDiGraph; the notebook runs on
\* networkx 1.x (nodes_iter, g.node).  relabel_nodes(G, f, copy=False) builds
\* the dict {n: f(n) for n in G} and calls _relabel_inplace, which for every
\* old label adds the new node with the old node's data, collects the old
\* node's out- and in-edges as (u, v, key, data) with the new label in place
\* of the old one, removes the old node and adds the collected edges.
Restrict(d, S) == [x \in S |-> d[x]]

\* Graph.add_node(n, attr_dict)
add_node(G, n, attr_dict) ==
    IF n \in DOMAIN G.node
    THEN [G EXCEPT !.node[n] = Update(@, attr_dict)]
    ELSE [G EXCEPT !.node = SetItem(@, n, attr_dict)]

\* Graph.remove_node(n): the node and its incident edges
remove_node(G, n) ==
    [node |-> Restrict(G.node, DOMAIN G.node \ {n}),
     edge |-> Restrict(G.edge, { e \in DOMAIN G.edge : e[1] # n /\ e[2] # n })]

\* MultiDiGraph.add_edges_from for one 4-tuple (u, v, key, dd)
add_edge(G, e) ==
    LET k  == << e[1], e[2], e[3] >>
        G1 == IF e[1] \in DOMAIN G.node THEN G ELSE add_node(G, e[1], EmptyDict)
        G2 == IF e[2] \in DOMAIN G1.node THEN G1 ELSE add_node(G1, e[2], EmptyDict)
        datadict == IF k \in DOMAIN G.edge THEN G.edge[k] ELSE EmptyDict
    IN  [G2 EXCEPT !.edge = SetItem(@, k, Update(datadict, e[4]))]

RECURSIVE add_edges_from(_, _, _)
add_edges_from(G, ebunch, k) ==
    IF k \notin DOMAIN ebunch THEN G
    ELSE add_edges_from(add_edge(G, ebunch[k]), ebunch, k + 1)

\* the orders in which a set may be iterated
Orders(S) == { s \in [1 .. Cardinality(S) -> S] : Range(s) = S }

\* the in-edges of the old node are not collected
relabel_one_outOnly(G, old, new, outs, ins) ==
    LET G1 == add_node(G, new, G.node[old])
        new_edges ==
            [k \in 1 .. Cardinality(DOMAIN outs) |->
                LET e == outs[k]
                IN  << new, IF old = e[2] THEN new ELSE e[2], e[3], G1.edge[e] >>]
    IN  add_edges_from(remove_node(G1, old), new_edges, 1)

\* the body of the loop of _relabel_inplace for a multigraph that is directed;
\* outs and ins are G.edges(old) and G.in_edges(old) in iteration order
relabel_one(G, old, new, outs, ins) ==
    LET G1 == add_node(G, new, G.node[old])
        no == Cardinality(DOMAIN outs)
        ni == Cardinality(DOMAIN ins)
        new_edges ==
            [k \in 1 .. (no + ni) |->
                IF k <= no
                THEN LET e == outs[k]
                     IN  << new, IF old = e[2] THEN new ELSE e[2], e[3], G1.edge[e] >>
                ELSE LET e == ins[k - no]
                     IN  << IF old = e[1] THEN new ELSE e[1], new, e[3], G1.edge[e] >>]
    IN  add_edges_from(remove_node(G1, old), new_edges, 1)

None == << "None", "None", "None" >>

\* lambda n: mapping.get(n)
Relabel_noDefault(n) == IF n \in DOMAIN mapping THEN mapping[n] ELSE None

\* the lambda with the type filter of In[12]
Relabel_typed(n) ==
    IF /\ n \in DOMAIN mapping
       /\ n \in DOMAIN corpus.node
       /\ corpus.node[n]["type"] \in MergedTypes
    THEN mapping[n] ELSE n

\* lambda n: mapping[n] if n in mapping else n
Relabel(n) == IF n \in DOMAIN mapping THEN mapping[n] ELSE n

\* the graph D of _relabel_inplace without its self loops: labels reachable from S
RECURSIVE Descendants(_, _)
Descendants(d, S) ==
    LET T == S \cup { d[x] : x \in { y \in S \cap DOMAIN d : d[y] # y } }
    IN  IF T = S THEN S ELSE Descendants(d, T)

\* nx.topological_sort(D) raises NetworkXUnfeasible
Unfeasible(d) == \E n \in DOMAIN d : d[n] # n /\ n \in Descendants(d, { d[n] })

\* the labels whose iteration changes the graph: the loop body passes over a
\* label that is no key of d (KeyError: continue) or is mapped to itself
Acting(d, labels) == { n \in labels \cap DOMAIN d : d[n] # n }

\* the loop of In[12] has ended; relabel_nodes builds the dict m from the
\* lambda and _relabel_inplace orders the labels
RelabelStart ==
    /\ pc = "c12_for"
    /\ Pending12 = {}
    /\ LET d == [n \in DOMAIN g.node |-> Relabel(n)]
           old_labels == DOMAIN d
           new_labels == Range(d)
       IN  /\ m' = d
           /\ IF old_labels \cap new_labels # {}
              THEN IF Unfeasible(d)
                   THEN todo13' = {} /\ pc' = "NetworkXUnfeasible"
                   ELSE /\ todo13' = Acting(d, old_labels \cup new_labels)
                        /\ pc' = "c13_for"
              ELSE todo13' = Acting(d, old_labels) /\ pc' = "c13_for"
    /\ UNCHANGED << loader, builder, corpus, g, visited12 >>

\* one iteration of: for old in nodes (reverse topological order of D)
RelabelStep ==
    /\ pc = "c13_for"
    /\ \E old \in todo13 :
         /\ m[old] \notin todo13
         /\ todo13' = todo13 \ {old}
         /\ IF old \notin DOMAIN g.node
            THEN g' = g /\ pc' = "KeyError"
            ELSE /\ \E outs \in Orders({ e \in DOMAIN g.edge : e[1] = old }),
                       ins \in Orders({ e \in DOMAIN g.edge : e[2] = old }) :
                       g' = relabel_one(g, old, m[old], outs, ins)
                 /\ pc' = pc
    /\ UNCHANGED << loader, builder, corpus, visited12, m >>

\* relabel_nodes returns G itself (copy=False)
RelabelDone ==
    /\ pc = "c13_for"
    /\ todo13 = {}
    /\ pc' = "done"
    /\ UNCHANGED << builder, applier, loader >>

g_relabeled == g

\* cells In[10], In[12] and In[13]
Apply == LoadCorpus \/ MergeStep \/ RelabelStart \/ RelabelStep \/ RelabelDone

Next == Build \/ Apply

\* the statements 'g(A) orthologous g(B)' an orthology file is made of
Statements ==
    { { TP53, Trp53 }, { Trp53, Tp53 }, { TP53, Tp53 }, { Trp53, Trp53b } }

\* the orthology graph pybel builds from the statements E
FromStatements(E) == [node |-> [n \in UNION E |-> NodeData(n)], edges |-> E]

InitApply == \E E \in SUBSET Statements : Start(FromStatements(E))

SpecApply == InitApply /\ [][Next]_vars

(*************************** In[5] *****************************************)
\* the graphs the orthology document at gene_orthology_url may parse to
Remote == { FromStatements(E) : E \in SUBSET Statements }

\* largest number of runs of In[5]
MaxRuns == 3

\* pybel.to_pickle and pybel.from_pickle: the file holds the pickle of a graph
Pickle(G) == << "gpickle", G >>

Unpickle(f) == f[2]

\* In[5] is run with the test left out: it always downloads
RunCell_noTest ==
    /\ pc = "c5"
    /\ runs < MaxRuns
    /\ runs' = runs + 1
    /\ pc' = "c5_from_url"
    /\ UNCHANGED << file, orthology, downloads, writes >>
    /\ UNCHANGED << builder, applier >>

\* In[5] is run: if not os.path.exists(path)
RunCell ==
    /\ pc = "c5"
    /\ runs < MaxRuns
    /\ runs' = runs + 1
    /\ pc' = IF file = Absent THEN "c5_from_url" ELSE "c5_from_pickle"
    /\ UNCHANGED << file, orthology, downloads, writes >>
    /\ UNCHANGED << builder, applier >>

\* orthology = pybel.from_url(gene_orthology_url)
FromUrl ==
    /\ pc = "c5_from_url"
    /\ \E G \in Remote : orthology' = G
    /\ downloads' = downloads + 1
    /\ pc' = "c5_to_pickle"
    /\ UNCHANGED << file, runs, writes >>
    /\ UNCHANGED << builder, applier >>

\* pybel.to_pickle(orthology, path)
ToPickle ==
    /\ pc = "c5_to_pickle"
    /\ file' = Pickle(orthology)
    /\ writes' = writes + 1
    /\ pc' = "c5"
    /\ UNCHANGED << orthology, runs, downloads >>
    /\ UNCHANGED << builder, applier >>

\* orthology = pybel.from_pickle(path)
FromPickle ==
    /\ pc = "c5_from_pickle"
    /\ IF file = Absent
       THEN orthology' = orthology /\ pc' = "FileNotFoundError"
       ELSE orthology' = Unpickle(file) /\ pc' = "c5"
    /\ UNCHANGED << file, runs, downloads, writes >>
    /\ UNCHANGED << builder, applier >>

\* between two runs the user removes the file at path
RemoveFile ==
    /\ pc = "c5"
    /\ file # Absent
    /\ file' = Absent
    /\ UNCHANGED << orthology, runs, downloads, writes, pc >>
    /\ UNCHANGED << builder, applier >>

Load == RunCell \/ FromUrl \/ ToPickle \/ FromPickle \/ RemoveFile

\* the notebook before In[5] runs, with or without a file at path
InitCache ==
    /\ orthology_undirected = NoGraph
    /\ seen = {}
    /\ i = -1
    /\ component = {}
    /\ scanned = << >>
    /\ index2component = EmptyDict
    /\ member2index = EmptyDict
    /\ index2mgi = EmptyDict
    /\ mapping = EmptyDict
    /\ visited9 = {}
    /\ corpus = NoGraph
    /\ g = NoGraph
    /\ visited12 = {}
    /\ m = EmptyDict
    /\ todo13 = {}
    /\ file \in { Absent } \cup { Pickle(G) : G \in Remote }
    /\ orthology = NoGraph
    /\ runs = 0
    /\ downloads = 0
    /\ writes = 0
    /\ pc = "c5"

SpecCache == InitCache /\ [][Load]_vars

(*************************** properties of In[5] ***************************)
\* C16: in every sequence of runs of In[5], a download or a write of the
\* file happens only while no file is at path, in a run that found none; a
\* run that starts with a file at path goes to from_pickle; while a file is
\* at path and is not removed, no step downloads, writes or changes the
\* file; and a run that loads binds the graph the file holds.
C16_SkipIfCached ==
    [][ /\ (downloads' # downloads \/ writes' # writes) =>
              file = Absent /\ pc \in { "c5_from_url", "c5_to_pickle" }
        /\ (pc = "c5" /\ pc' # "c5" /\ file = Absent) => pc' = "c5_from_url"
        /\ (pc = "c5" /\ pc' # "c5" /\ file # Absent) => pc' = "c5_from_pickle"
        /\ (file # Absent /\ file' # Absent) =>
              file' = file /\ downloads' = downloads /\ writes' = writes
        /\ (pc = "c5_from_pickle" /\ pc' = "c5") =>
              file # Absent /\ orthology' = Unpickle(file)
        /\ pc' # "FileNotFoundError" ]_vars

C16_Witness ==
    /\ pc = "c5_from_pickle"
    /\ runs = 2
    /\ downloads = 1
    /\ writes = 1
    /\ file # Absent
    /\ orthology = Unpickle(file)

(*************************** properties of In[8] and In[9] *****************)
\* connectivity of the orthology graph, as a least fixed point
RECURSIVE Closure(_, _)
Closure(G, S) ==
    LET T == S \cup { w \in Nodes(G) : \E v \in S : {v, w} \in G.edges }
    IN  IF T = S THEN S ELSE Closure(G, T)

ComponentOf(n) == Closure(orthology_undirected, {n})

Components == { ComponentOf(n) : n \in Nodes(orthology_undirected) }

HasMGI(C) == \E n \in C : n[2] = "MGI"

Partitioned == pc \notin { "c8_for", "c8_members" }

Built == pc \notin { "c8_for", "c8_members", "c9_for" }

\* C1: once the partition loop has ended, every node of the orthology graph
\* belongs to exactly one component recorded in index2component; recorded
\* components hold only nodes of the graph and never share a node.
C1_Partition ==
    /\ \A k \in DOMAIN index2component :
         /\ index2component[k] # {}
         /\ index2component[k] \subseteq Nodes(orthology_undirected)
         /\ \A l \in DOMAIN index2component :
              k # l => index2component[k] \cap index2component[l] = {}
    /\ Partitioned =>
         \A n \in Nodes(orthology_undirected) :
            Cardinality({ k \in DOMAIN index2component : n \in index2component[k] }) = 1

C1_Witness ==
    /\ pc = "c9_for"
    /\ Cardinality(DOMAIN index2component) = 2
    /\ \E k \in DOMAIN index2component : Cardinality(index2component[k]) = 3

\* C2: once mapping is built, every connected component with an MGI node has
\* exactly one node r to which all its members that are keys of mapping are
\* mapped, also when the component has several MGI nodes.
C2_OneRepresentative ==
    Built =>
      \A C \in Components :
         HasMGI(C) =>
           Cardinality({ r \in C : \A x \in C \cap DOMAIN mapping : mapping[x] = r }) = 1

C2_Witness ==
    /\ Built
    /\ \E C \in Components :
         /\ Cardinality({ n \in C : n[2] = "MGI" }) = 2
         /\ Cardinality(C) = 4
         /\ C \subseteq DOMAIN mapping

ExampleGraph ==
    [node |-> [n \in { TP53, Trp53, Tp53 } |-> NodeData(n)],
     edges |-> { { TP53, Trp53 }, { Trp53, Tp53 } }]

\* C3 as stated: the representative is never a key of mapping; on the example
\* graph mapping has exactly the two entries TP53 -> Trp53 and Tp53 -> Trp53.
C3_Original ==
    Built =>
      /\ \A n \in DOMAIN mapping : mapping[n] \notin DOMAIN mapping
      /\ orthology_undirected = ExampleGraph =>
           mapping = [n \in { TP53, Tp53 } |-> Trp53]

\* C3 amended: the representative of a component is itself a key of mapping,
\* with itself as value; on the example graph mapping has exactly the three
\* entries TP53 -> Trp53, Tp53 -> Trp53 and Trp53 -> Trp53.
C3_RepresentativeIsKey ==
    Built =>
      /\ \A n \in DOMAIN mapping :
            mapping[n] \in DOMAIN mapping /\ mapping[mapping[n]] = mapping[n]
      /\ orthology_undirected = ExampleGraph =>
           mapping = [n \in { TP53, Tp53, Trp53 } |-> Trp53]

C3_Witness == Built /\ orthology_undirected = ExampleGraph /\ Trp53 \in DOMAIN mapping

\* C4: once mapping is built, its keys are exactly the nodes whose connected
\* component has an MGI node, each mapped to the representative recorded for
\* its component; a node of a component without MGI node is no key.
C4_KeySet ==
    Built =>
      /\ DOMAIN mapping = { n \in Nodes(orthology_undirected) : HasMGI(ComponentOf(n)) }
      /\ \A n \in DOMAIN mapping :
            /\ mapping[n] \in ComponentOf(n)
            /\ \A x \in ComponentOf(n) : mapping[x] = mapping[n]

C4_Witness ==
    /\ Built
    /\ DOMAIN mapping # {}
    /\ \E n \in Nodes(orthology_undirected) :
         n \notin DOMAIN mapping /\ Cardinality(ComponentOf(n)) = 2

\* C5: a value of mapping that is itself a key is mapped to itself, so that
\* mapping.get(r, r) = r for every value r, in every state of the notebook.
C5_Idempotent ==
    \A n \in DOMAIN mapping :
       LET r == mapping[n]
       IN  (IF r \in DOMAIN mapping THEN mapping[r] ELSE r) = r

C5_Witness ==
    /\ Built
    /\ \E n \in DOMAIN mapping :
         /\ n[2] = "MGI"
         /\ mapping[n] # n
         /\ mapping[n] \in DOMAIN mapping

\* C6: every value of mapping has namespace MGI.
C6_ValuesAreMGI == \A n \in DOMAIN mapping : mapping[n][2] = "MGI"

C6_Witness ==
    /\ Built
    /\ \E n \in DOMAIN mapping : n[2] = "HGNC"
    /\ \E n \in DOMAIN mapping : n[2] = "RGD"

\* C7: every key of mapping is mapped to a node of its own connected
\* component.
C7_SameComponent == \A n \in DOMAIN mapping : mapping[n] \in ComponentOf(n)

C7_Witness ==
    /\ Built
    /\ Cardinality(Components) = 2
    /\ \A C \in Components : HasMGI(C) /\ Cardinality(C) = 2

(*************************** orders of iteration ***************************)
\* while In[8] and In[9] run, scanned holds, component after component in
\* their order of enumeration, the members in the order the inner loop of
\* In[8] iterated them
Running == pc \in { "c8_for", "c8_members", "c9_for" }

RECURSIVE Flatten(_)
Flatten(ss) == IF ss = << >> THEN << >> ELSE Head(ss) \o Flatten(Tail(ss))

\* the members in the order In[8] iterated them
Order == Flatten(scanned)

\* the place of every member in that order
Positions ==
    LET order == Order
    IN  [n \in Range(order) |-> CHOOSE j \in DOMAIN order : order[j] = n]

Position(n) == Positions[n]

\* the MGI node of S iterated last
LastMGI(S) ==
    LET pos == Positions
    IN  CHOOSE r \in S :
           /\ r[2] = "MGI"
           /\ \A x \in S : x[2] = "MGI" => pos[x] <= pos[r]

\* what the orders recorded in scanned and the nodes In[9] has visited
\* determine: index[n] is the place in the enumeration of the connected
\* component of n, and the representative of a place is the MGI node of that
\* place iterated last
Expected ==
    LET order == Order
        comp  == [n \in Range(order) |-> ComponentOf(n)]
        first == [n \in Range(order) |->
                    CHOOSE j \in DOMAIN order :
                       /\ order[j] \in comp[n]
                       /\ \A l \in 1 .. (j - 1) : order[l] \notin comp[n]]
        index == [n \in Range(order) |->
                    Cardinality({ comp[order[l]] : l \in 1 .. first[n] }) - 1]
        mgi   == { n \in Range(order) : n[2] = "MGI" }
        repr  == [k \in { index[n] : n \in mgi } |->
                    LastMGI({ n \in mgi : index[n] = k })]
    IN  [ member2index |-> index,
          index2mgi    |-> repr,
          mapping      |-> [n \in { x \in visited9 : index[x] \in DOMAIN repr } |->
                              repr[index[n]]] ]

\* the loop of In[9] has visited every node: the three dicts are complete
MappingComplete == pc = "c9_for" /\ visited9 = Nodes(orthology_undirected)

\* C11: the complete member2index, index2mgi and mapping are functions of
\* the orthology graph, the order of enumeration of the components and the
\* order of iteration of their members, so two runs that agree on these
\* produce the same three dicts.
C11_Deterministic ==
    MappingComplete =>
      LET expected == Expected
      IN  /\ member2index = expected.member2index
          /\ index2mgi = expected.index2mgi
          /\ mapping = expected.mapping

C11_Witness ==
    /\ MappingComplete
    /\ DOMAIN index2component = { 0, 1 }
    /\ DOMAIN index2mgi = { 1 }
    /\ \E n \in DOMAIN mapping : n[2] = "MGI" /\ mapping[n] # n

\* C14: index2mgi of a component is, of its MGI members iterated so far, the
\* one iterated last, and once In[9] has visited all nodes every member of a
\* component with MGI members, its other MGI members included, is mapped to
\* the MGI member iterated last.
C14_LastSeenWins ==
    Running =>
      \A k \in DOMAIN index2component :
         LET mgi == { n \in index2component[k] \cap Range(Order) : n[2] = "MGI" }
         IN  mgi # {} =>
               LET last == LastMGI(mgi)
               IN  /\ k \in DOMAIN index2mgi
                   /\ index2mgi[k] = last
                   /\ MappingComplete =>
                         \A n \in index2component[k] :
                            n \in DOMAIN mapping /\ mapping[n] = last

C14_Witness ==
    /\ MappingComplete
    /\ \E k \in DOMAIN index2component :
         /\ { Trp53, Trp53b, TP53 } \subseteq index2component[k]
         /\ Position(Trp53b) < Position(TP53)
         /\ Position(TP53) < Position(Trp53)
         /\ mapping[Trp53b] = Trp53

\* C15: once the partition loop has ended, member2index has exactly the
\* nodes of the orthology graph as keys, member2index[n] = k exactly when n
\* is in index2component[k], the indices are 0, 1, ... with one index per
\* connected component, and so no node In[9] iterates is missing from
\* member2index.
C15_MemberIndexTotal ==
    Partitioned =>
      LET components == Components
      IN  /\ DOMAIN member2index = Nodes(orthology_undirected)
          /\ \A n \in Nodes(orthology_undirected) :
                \A k \in DOMAIN index2component :
                   member2index[n] = k <=> n \in index2component[k]
          /\ DOMAIN index2component = 0 .. (Cardinality(components) - 1)
          /\ { index2component[k] : k \in DOMAIN index2component } = components

C15_Witness ==
    /\ pc = "c9_for"
    /\ visited9 # {}
    /\ Cardinality(Components) = 3
    /\ \E n \in DOMAIN member2index : member2index[n] = 2

\* the MGI nodes of the connected component of n
MGIOf(n) == { x \in ComponentOf(n) : x[2] = "MGI" }

\* C17: once mapping is built, a node whose connected component has exactly
\* one MGI node is mapped to that node, and a node whose component has none
\* is no key, whatever the orders of enumeration and iteration were; mapping
\* depends on the orders only within components with two or more MGI nodes.
C17_OrderIndependent ==
    Built =>
      \A n \in Nodes(orthology_undirected) :
         /\ Cardinality(MGIOf(n)) = 1 =>
               n \in DOMAIN mapping /\ mapping[n] \in MGIOf(n)
         /\ Cardinality(MGIOf(n)) = 0 => n \notin DOMAIN mapping

C17_Witness ==
    /\ Built
    /\ \A n \in Nodes(orthology_undirected) : Cardinality(MGIOf(n)) <= 1
    /\ Cardinality(DOMAIN mapping) = 4
    /\ Cardinality(Nodes(orthology_undirected)) = 5
    /\ Cardinality(Components) = 3

(*************************** properties of In[12] and In[13] ***************)
Loaded == pc \in { "c12_for", "c13_for", "done" }

\* the corpus nodes relabeled to r
Sources(r) == { n \in DOMAIN corpus.node : Relabel(n) = r }

\* C8: from the loading of the corpus on, through the merge of In[12] and the
\* relabeling of In[13], every corpus node that is no key of mapping is a node
\* of g under its own identity with the attribute dict it was loaded with.
C8_UnmappedUntouched ==
    Loaded =>
      \A n \in DOMAIN corpus.node :
         n \notin DOMAIN mapping =>
           n \in DOMAIN g.node /\ g.node[n] = corpus.node[n]

C8_Witness ==
    /\ pc = "done"
    /\ \E n \in DOMAIN corpus.node : n \notin DOMAIN mapping /\ n[2] = "HGNC"
    /\ \E n \in DOMAIN corpus.node : n \in DOMAIN mapping /\ mapping[n] # n
    /\ corpus.edge # EmptyDict

\* C9: when the notebook is done, a corpus node n of type Gene, RNA or Protein
\* that is a key of mapping and shares its new label with no other corpus
\* node has been replaced by mapping[n], whose attributes are those of the
\* orthology node mapping[n] and, under every other key, those n was loaded with.
C9_MergedAttributes ==
    pc = "done" =>
      \A n \in DOMAIN corpus.node :
         (/\ corpus.node[n]["type"] \in { "Gene", "RNA", "Protein" }
          /\ n \in DOMAIN mapping
          /\ Sources(mapping[n]) = {n})
         =>
         LET r     == mapping[n]
             orth  == orthology_undirected.node[r]
             was   == corpus.node[n]
         IN  /\ r \in DOMAIN g_relabeled.node
             /\ r # n => n \notin DOMAIN g_relabeled.node
             /\ DOMAIN g_relabeled.node[r] = DOMAIN was \cup DOMAIN orth
             /\ \A k \in DOMAIN orth : g_relabeled.node[r][k] = orth[k]
             /\ \A k \in DOMAIN was \ DOMAIN orth : g_relabeled.node[r][k] = was[k]

C9_Witness ==
    /\ pc = "done"
    /\ TP53 \in DOMAIN corpus.node
    /\ corpus.node[TP53]["type"] = "Gene"
    /\ TP53 \in DOMAIN mapping
    /\ mapping[TP53] = Trp53
    /\ Sources(Trp53) = { TP53 }
    /\ Unrelated \in DOMAIN g_relabeled.node
    /\ g_relabeled.node[Trp53] =
         [type |-> "Gene", namespace |-> "MGI", name |-> "Trp53", description |-> "corpus"]

\* the corpus edges with an end in S
Incident(S) == { e \in DOMAIN corpus.edge : e[1] \in S \/ e[2] \in S }

\* C10 as stated: when the notebook is done, for every label r that two or
\* more corpus nodes are relabeled to, g_relabeled has the node r, and the
\* edges of all these nodes are kept: every one of them is found, with its
\* data, between the relabeled ends, and as many edges touch r as touched the
\* colliding nodes.
C10_CollisionKeepsEdges ==
    pc = "done" =>
      \A r \in { Relabel(n) : n \in DOMAIN corpus.node } :
         Cardinality(Sources(r)) >= 2 =>
           /\ r \in DOMAIN g_relabeled.node
           /\ \A e \in Incident(Sources(r)) :
                 \E f \in DOMAIN g_relabeled.edge :
                    /\ f[1] = Relabel(e[1])
                    /\ f[2] = Relabel(e[2])
                    /\ g_relabeled.edge[f] = corpus.edge[e]
           /\ Cardinality({ f \in DOMAIN g_relabeled.edge : f[1] = r \/ f[2] = r })
                = Cardinality(Incident(Sources(r)))

C13_ImageUnderMapping ==
    pc = "done" =>
      /\ DOMAIN g_relabeled.node = { Relabel(n) : n \in DOMAIN corpus.node }
      /\ \A n \in DOMAIN corpus.node :
            Relabel(n) # n => n \notin DOMAIN g_relabeled.node
      /\ \A e \in DOMAIN corpus.edge :
            \E f \in DOMAIN g_relabeled.edge :
               f[1] = Relabel(e[1]) /\ f[2] = Relabel(e[2])

C13_Witness ==
    /\ pc = "done"
    /\ \E e \in DOMAIN corpus.edge : Relabel(e[1]) = e[1] /\ Relabel(e[2]) # e[2]
    /\ \E e \in DOMAIN corpus.edge : Relabel(e[1]) # e[1] /\ Relabel(e[2]) = e[2]
    /\ \E n \in DOMAIN corpus.node : n[2] = "RGD" /\ Relabel(n)[2] = "MGI"
    /\ Cardinality(DOMAIN g_relabeled.node) = 3

\* C18: no lookup of In[12] fails: every value of mapping is a node of the
\* orthology graph and no run ends in a KeyError; while In[12] runs, g keeps
\* the nodes and the edges the corpus was loaded with, and the only nodes
\* whose attributes differ from the loaded ones have been iterated, are of
\* type Gene, RNA or Protein and are keys of mapping.
C18_MergeIsSafe ==
    /\ pc # "KeyError"
    /\ Range(mapping) \subseteq Nodes(orthology_undirected)
    /\ pc = "c12_for" =>
         /\ DOMAIN g.node = DOMAIN corpus.node
         /\ g.edge = corpus.edge
         /\ \A n \in DOMAIN corpus.node :
               g.node[n] # corpus.node[n] =>
                 /\ n \in visited12
                 /\ corpus.node[n]["type"] \in MergedTypes
                 /\ n \in DOMAIN mapping

C18_Witness ==
    /\ pc = "c12_for"
    /\ Pending12 = {}
    /\ corpus.edge # EmptyDict
    /\ \E n \in DOMAIN corpus.node :
         /\ g.node[n] # corpus.node[n]
         /\ g.node[n]["namespace"] = "MGI"
         /\ n[2] # "MGI"
    /\ \E n \in DOMAIN corpus.node :
         /\ n \in DOMAIN mapping
         /\ corpus.node[n]["type"] = "Pathology"
         /\ g.node[n] = corpus.node[n]

====
